---- MODULE Spec2Model ----
(***************************************************************************)
(* capnslog/logmap.go: the process-wide registry of package loggers, its   *)
(* level setters, the level parser and the `pkg=level` configuration       *)
(* parser.                                                                 *)
(*                                                                         *)
(* Go strings are modelled as sequences of one-character strings, so that  *)
(* strings.Split and string concatenation are computed, not assumed.       *)
(* Go pointers and map references are heap addresses: repoHeap[a] is the   *)
(* repoLogger map at address a, pkgHeap[a] the packageLogger at address a. *)
(***************************************************************************)
EXTENDS Integers, Sequences, FiniteSets, TLC

----------------------------------------------------------------------------
(* Bounds of the model *)

\* total number of calls into the package made in one behaviour
MaxCalls == 4
\* largest number of keys of a mapping handed to SetLogLevel
MaxKeys == 2
\* largest number of pieces a configuration string is assembled from (SpecParse)
MaxPieces == 4
\* greatest length of the strings over LevelAlphabet handed to ParseLevel (SpecLevel)
MaxLevelLen == 2

Threads == {"t1", "t2"}
NoThread == "none"

\* names used by the callers
Repos == {<<"R">>, <<"S">>}
PkgNames == {<<"a">>, <<"b">>}
\* keys of the mappings handed to SetLogLevel: "u" is never a package
MapKeys == {<<"*">>, <<"b">>, <<"u">>}
Formatters == {"f1"}

----------------------------------------------------------------------------
(* LogLevel *)

CRITICAL == -1
ERROR == 0
WARNING == 1
NOTICE == 2
INFO == 3
DEBUG == 4
TRACE == 5

Levels == {CRITICAL, ERROR, WARNING, NOTICE, INFO, DEBUG, TRACE}

\* levels the callers hand to the setters
LevelInputs == {ERROR, DEBUG}

\* what the callers hand to SetGlobalLogLevel: a constant of lines 14-26, and
\* LogLevel(6), which the parameter's type, an int8 (line 10), admits and no
\* statement of lines 92-98 and 127-131 turns down
GlobalLevelInputs == {CRITICAL, TRACE + 1}

\* the nil error
NoErr == <<>>

\* errors.New(prefix + s): the message is the prefix followed by s
ErrorsNew(prefix, s) == <<prefix>> \o s

\* the fixed prefixes of the error messages (the back quotes around pkg=level
\* in the source's second message are written as quotes here)
CouldntParse == "couldn't parse log level "
OddlyStructured == "oddly structured 'pkg=level' option: "
NoPackages == "no packages registered for repo "

\* The value Char panics with.
CharPanic == <<"Unhandled loglevel">>

Char(l) ==
    CASE l = CRITICAL -> <<"C">>
      [] l = ERROR    -> <<"E">>
      [] l = WARNING  -> <<"W">>
      [] l = NOTICE   -> <<"N">>
      [] l = INFO     -> <<"I">>
      [] l = DEBUG    -> <<"D">>
      [] l = TRACE    -> <<"T">>
      [] OTHER        -> CharPanic

\* a mutant of ParseLevel: the digits count the levels from CRITICAL on
ParseLevelOrdinal(s) ==
    CASE s \in {<<"C","R","I","T","I","C","A","L">>, <<"0">>, <<"C">>} -> [l |-> CRITICAL, err |-> NoErr]
      [] s \in {<<"E","R","R","O","R">>, <<"1">>, <<"E">>}     -> [l |-> ERROR, err |-> NoErr]
      [] s \in {<<"W","A","R","N","I","N","G">>, <<"2">>, <<"W">>} -> [l |-> WARNING, err |-> NoErr]
      [] s \in {<<"N","O","T","I","C","E">>, <<"3">>, <<"N">>} -> [l |-> NOTICE, err |-> NoErr]
      [] s \in {<<"I","N","F","O">>, <<"4">>, <<"I">>}         -> [l |-> INFO, err |-> NoErr]
      [] s \in {<<"D","E","B","U","G">>, <<"5">>, <<"D">>}     -> [l |-> DEBUG, err |-> NoErr]
      [] s \in {<<"T","R","A","C","E">>, <<"6">>, <<"T">>}     -> [l |-> TRACE, err |-> NoErr]
      [] OTHER -> [l |-> CRITICAL, err |-> ErrorsNew(CouldntParse, s)]

\* a mutant of ParseLevel: CRITICAL has its number as an alias like the other levels
ParseLevelSigned(s) ==
    CASE s \in {<<"C","R","I","T","I","C","A","L">>, <<"-","1">>, <<"C">>} -> [l |-> CRITICAL, err |-> NoErr]
      [] s \in {<<"E","R","R","O","R">>, <<"0">>, <<"E">>}     -> [l |-> ERROR, err |-> NoErr]
      [] s \in {<<"W","A","R","N","I","N","G">>, <<"1">>, <<"W">>} -> [l |-> WARNING, err |-> NoErr]
      [] s \in {<<"N","O","T","I","C","E">>, <<"2">>, <<"N">>} -> [l |-> NOTICE, err |-> NoErr]
      [] s \in {<<"I","N","F","O">>, <<"3">>, <<"I">>}         -> [l |-> INFO, err |-> NoErr]
      [] s \in {<<"D","E","B","U","G">>, <<"4">>, <<"D">>}     -> [l |-> DEBUG, err |-> NoErr]
      [] s \in {<<"T","R","A","C","E">>, <<"5">>, <<"T">>}     -> [l |-> TRACE, err |-> NoErr]
      [] OTHER -> [l |-> CRITICAL, err |-> ErrorsNew(CouldntParse, s)]

\* lines 52-70: the level and the error ParseLevel returns
ParseLevel(s) ==
    CASE s \in {<<"C","R","I","T","I","C","A","L">>, <<"C">>} -> [l |-> CRITICAL, err |-> NoErr]
      [] s \in {<<"E","R","R","O","R">>, <<"0">>, <<"E">>}     -> [l |-> ERROR, err |-> NoErr]
      [] s \in {<<"W","A","R","N","I","N","G">>, <<"1">>, <<"W">>} -> [l |-> WARNING, err |-> NoErr]
      [] s \in {<<"N","O","T","I","C","E">>, <<"2">>, <<"N">>} -> [l |-> NOTICE, err |-> NoErr]
      [] s \in {<<"I","N","F","O">>, <<"3">>, <<"I">>}         -> [l |-> INFO, err |-> NoErr]
      [] s \in {<<"D","E","B","U","G">>, <<"4">>, <<"D">>}     -> [l |-> DEBUG, err |-> NoErr]
      [] s \in {<<"T","R","A","C","E">>, <<"5">>, <<"T">>}     -> [l |-> TRACE, err |-> NoErr]
      [] OTHER -> [l |-> CRITICAL, err |-> ErrorsNew(CouldntParse, s)]

----------------------------------------------------------------------------
(* Go maps of type map[string]T: nil or made, with their entries *)

NilMap == [nil |-> TRUE, kv |-> <<>>]
MakeMap == [nil |-> FALSE, kv |-> <<>>]

\* a mutant of Store: a key that is there keeps its value
StoreKeeping(kv, k, v) == kv @@ (k :> v)

\* m[k] = v on a map's entries
Store(kv, k, v) == (k :> v) @@ kv

\* the nil repoLogger and the nil *packageLogger
NIL == 0

----------------------------------------------------------------------------
(* strings.Split(s, sep) for a one-character separator *)

RECURSIVE IndexFrom(_, _, _)
IndexFrom(s, sep, i) ==
    IF i > Len(s) THEN 0
    ELSE IF s[i] = sep THEN i
    ELSE IndexFrom(s, sep, i + 1)

RECURSIVE Split(_, _)
Split(s, sep) ==
    LET i == IndexFrom(s, sep, 1)
    IN  IF i = 0 THEN <<s>>
        ELSE <<SubSeq(s, 1, i - 1)>> \o Split(SubSeq(s, i + 1, Len(s)), sep)

\* a mutant of Structured: anything with a `=` in it passes, the parts after the
\* second are dropped
StructuredLoose(setting) == Len(setting) >= 2

\* line 140, negated: the token split into exactly two parts
Structured(setting) == Len(setting) = 2

\* the loop of ParseLogLevelConfig over setlist[i..], with the entries gathered so far
RECURSIVE ParseSettings(_, _, _)
ParseSettings(setlist, i, out) ==
    IF i > Len(setlist) THEN [m |-> [nil |-> FALSE, kv |-> out], err |-> NoErr]
    ELSE LET setstring == setlist[i]
             setting == Split(setstring, "=")
         IN  IF ~Structured(setting)
             THEN [m |-> NilMap,
                   err |-> ErrorsNew(OddlyStructured, setstring)]
             ELSE LET pl == ParseLevel(setting[2])
                  IN  IF pl.err # NoErr
                      THEN [m |-> NilMap, err |-> pl.err]
                      ELSE ParseSettings(setlist, i + 1, Store(out, setting[1], pl.l))

ParseLogLevelConfig(conf) == ParseSettings(Split(conf, ","), 1, <<>>)

----------------------------------------------------------------------------
(* The program state *)

VARIABLES
    mutex,      \* logger.Mutex: the thread holding it, or NoThread
    repoMap,    \* logger.repoMap: nil, or repository name -> address of its repoLogger
    formatter,  \* logger.formatter
    repoHeap,   \* the repoLogger maps made so far: package name -> address of its packageLogger
    pkgHeap,    \* the packageLogger objects made so far: [pkg, level]
    pc,         \* where each thread is
    frame,      \* each thread's current call: arguments and locals
    ret,        \* what each thread's last call returned
    handles,    \* the repoLogger values RepoLogger/MustRepoLogger have handed to the callers
    returned,   \* the (repo, pkg) pairs for which a NewPackageLogger call has returned
    late,       \* the packageLoggers made in a repoLogger that callers already held
    calls,      \* number of calls made so far
    alive       \* FALSE once an unrecovered panic has ended the process

vars == <<mutex, repoMap, formatter, repoHeap, pkgHeap, pc, frame, ret, handles,
          returned, late, calls, alive>>

\* the registry: everything reachable from the global logger
Registry == [repoMap |-> repoMap, formatter |-> formatter,
             repoHeap |-> repoHeap, pkgHeap |-> pkgHeap]

NoFrame ==
    [op |-> "none", repo |-> <<>>, pkg |-> <<>>, l |-> INFO, m |-> NilMap, conf |-> <<>>,
     r |-> NIL, rok |-> FALSE, p |-> NIL, pok |-> FALSE,
     todoR |-> {}, todo |-> {}, rl |-> "none",
     pre |-> [repoMap |-> NilMap, formatter |-> "nil", repoHeap |-> <<>>, pkgHeap |-> <<>>]]

NoRet == [p |-> NIL, r |-> NIL, m |-> NilMap, l |-> ERROR, err |-> NoErr]

Init ==
    /\ mutex = NoThread
    /\ repoMap = NilMap
    /\ formatter = "nil"
    /\ repoHeap = <<>>
    /\ pkgHeap = <<>>
    /\ pc = [t \in Threads |-> "idle"]
    /\ frame = [t \in Threads |-> NoFrame]
    /\ ret = [t \in Threads |-> NoRet]
    /\ handles = {}
    /\ returned = {}
    /\ late = {}
    /\ calls = 0
    /\ alive = TRUE

\* the entries of the repoLogger map behind handle h (a nil map has none)
RepoEntries(h) == IF h = NIL THEN <<>> ELSE repoHeap[h]

----------------------------------------------------------------------------
(* sync.Mutex *)

\* a mutant of CanLock: Lock() never waits
CanLockAlways == TRUE

\* Lock() goes through only when nobody holds the mutex
CanLock == mutex = NoThread

\* logger.Lock() as the first statement of operation f.op; the thread goes on at label.
\* A thread waiting in Lock() has touched nothing yet and is not told apart from one
\* that has not called: the call and the taking of the mutex are one step.
\* frame.pre records the registry the call found, for the statements about what a
\* call has changed when it is through.
Lock(t, f, label) ==
    /\ alive
    /\ pc[t] = IF f.op = "SetLogLevelParsed" THEN "ret" ELSE "idle"
    /\ calls < MaxCalls
    /\ CanLock
    /\ mutex' = t
    /\ calls' = calls + 1
    /\ frame' = [frame EXCEPT ![t] = [f EXCEPT !.pre = Registry]]
    /\ ret' = [ret EXCEPT ![t] = NoRet]
    /\ pc' = [pc EXCEPT ![t] = label]
    /\ UNCHANGED <<repoMap, formatter, repoHeap, pkgHeap, handles, returned, late, alive>>

\* the operations whose result the caller holds on to after the return
KeepsResult(op) == op \in {"NewPackageLogger", "MustRepoLogger"}

\* a mutant of Released: the mutex is given back only on the way out without error
ReleasedOnSuccess(t) == IF ret[t].err = NoErr THEN NoThread ELSE mutex

\* the holder of the mutex after the deferred logger.Unlock() of thread t: nobody
Released(t) == NoThread

\* the deferred logger.Unlock(), then the return to the caller
Unlock(t) ==
    /\ alive
    /\ pc[t] = "unlock"
    /\ mutex' = Released(t)
    /\ frame' = [frame EXCEPT ![t] =
                    IF KeepsResult(frame[t].op)
                    THEN [NoFrame EXCEPT !.op = frame[t].op, !.repo = frame[t].repo,
                                         !.pkg = frame[t].pkg]
                    ELSE NoFrame]
    /\ ret' = [ret EXCEPT ![t] = IF KeepsResult(frame[t].op) THEN ret[t] ELSE NoRet]
    /\ pc' = [pc EXCEPT ![t] =
                 CASE frame[t].op = "NewPackageLogger" -> "ret"
                   [] frame[t].op = "MustRepoLogger" -> "must"
                   [] OTHER -> "idle"]
    /\ handles' = IF frame[t].op = "RepoLogger" THEN handles \cup {ret[t].r} ELSE handles
    /\ returned' = IF frame[t].op = "NewPackageLogger"
                   THEN returned \cup {<<frame[t].repo, frame[t].pkg>>}
                   ELSE returned
    /\ UNCHANGED <<repoMap, formatter, repoHeap, pkgHeap, late, calls, alive>>

\* the caller is done with the returned value
Return(t) ==
    /\ alive
    /\ pc[t] = "ret"
    /\ pc' = [pc EXCEPT ![t] = "idle"]
    /\ frame' = [frame EXCEPT ![t] = NoFrame]
    /\ ret' = [ret EXCEPT ![t] = NoRet]
    /\ UNCHANGED <<mutex, repoMap, formatter, repoHeap, pkgHeap, handles, returned, late,
                   calls, alive>>

----------------------------------------------------------------------------
(* NewPackageLogger *)

NewPackageLoggerCall(t) ==
    \E repo \in Repos, pkg \in PkgNames :
        Lock(t, [NoFrame EXCEPT !.op = "NewPackageLogger", !.repo = repo, !.pkg = pkg],
             "npl_repo")

\* lines 183-186: make the repository map on first use, look the repository up
NewPackageLoggerRepo(t) ==
    /\ alive
    /\ pc[t] = "npl_repo"
    /\ LET rm == IF repoMap.nil THEN MakeMap ELSE repoMap
           rok == frame[t].repo \in DOMAIN rm.kv
       IN  /\ repoMap' = rm
           /\ frame' = [frame EXCEPT ![t].rok = rok,
                                     ![t].r = IF rok THEN rm.kv[frame[t].repo] ELSE NIL]
    /\ pc' = [pc EXCEPT ![t] = "npl_mkrepo"]
    /\ UNCHANGED <<mutex, formatter, repoHeap, pkgHeap, ret, handles, returned, late, calls, alive>>

\* a mutant of MustMakeRepo: every call makes a fresh repoLogger for its repository
MustMakeRepoAlways(rok) == TRUE

\* the condition of line 187
MustMakeRepo(rok) == ~rok

\* lines 187-190: make the repoLogger of an unknown repository
NewPackageLoggerMakeRepo(t) ==
    /\ alive
    /\ pc[t] = "npl_mkrepo"
    /\ IF MustMakeRepo(frame[t].rok)
       THEN /\ repoHeap' = Append(repoHeap, <<>>)
            /\ repoMap' = [repoMap EXCEPT !.kv = Store(@, frame[t].repo, Len(repoHeap) + 1)]
            /\ frame' = [frame EXCEPT ![t].r = Len(repoHeap) + 1]
       ELSE UNCHANGED <<repoHeap, repoMap, frame>>
    /\ pc' = [pc EXCEPT ![t] = "npl_pkg"]
    /\ UNCHANGED <<mutex, formatter, pkgHeap, ret, handles, returned, late, calls, alive>>

\* line 191: look the package up
NewPackageLoggerPkg(t) ==
    /\ alive
    /\ pc[t] = "npl_pkg"
    /\ LET r == repoHeap[frame[t].r]
           pok == frame[t].pkg \in DOMAIN r
       IN  frame' = [frame EXCEPT ![t].pok = pok,
                                  ![t].p = IF pok THEN r[frame[t].pkg] ELSE NIL]
    /\ pc' = [pc EXCEPT ![t] = "npl_mkpkg"]
    /\ UNCHANGED <<mutex, repoMap, formatter, repoHeap, pkgHeap, ret, handles, returned, late,
                   calls, alive>>

\* a mutant of MustMakePkg: every call makes a fresh packageLogger
MustMakePkgAlways(pok) == TRUE

\* the condition of line 192
MustMakePkg(pok) == ~pok

\* a mutant of NewPkg: a new packageLogger starts at the level of the one made before it
NewPkgInheriting(pkg) ==
    [pkg |-> pkg, level |-> IF pkgHeap = <<>> THEN INFO ELSE pkgHeap[Len(pkgHeap)].level]

\* the packageLogger of lines 193-196
NewPkg(pkg) == [pkg |-> pkg, level |-> INFO]

\* lines 192-199: make the packageLogger of an unknown package, return p
NewPackageLoggerMakePkg(t) ==
    /\ alive
    /\ pc[t] = "npl_mkpkg"
    /\ IF MustMakePkg(frame[t].pok)
       THEN /\ pkgHeap' = Append(pkgHeap, NewPkg(frame[t].pkg))
            /\ repoHeap' = [repoHeap EXCEPT ![frame[t].r] =
                               Store(@, frame[t].pkg, Len(pkgHeap) + 1)]
            /\ frame' = [frame EXCEPT ![t].p = Len(pkgHeap) + 1]
            /\ ret' = [ret EXCEPT ![t].p = Len(pkgHeap) + 1]
            /\ late' = IF frame[t].r \in handles THEN late \cup {Len(pkgHeap) + 1} ELSE late
       ELSE /\ ret' = [ret EXCEPT ![t].p = frame[t].p]
            /\ UNCHANGED <<pkgHeap, repoHeap, frame, late>>
    /\ pc' = [pc EXCEPT ![t] = "unlock"]
    /\ UNCHANGED <<mutex, repoMap, formatter, handles, returned, calls, alive>>

----------------------------------------------------------------------------
(* Writes of a packageLogger's level *)

\* a mutant of SetLevel: the loggers are found by package name, not by pointer
SetLevelByName(ph, a, l) ==
    [b \in DOMAIN ph |-> IF ph[b].pkg = ph[a].pkg THEN [ph[b] EXCEPT !.level = l] ELSE ph[b]]

\* v.level = l (lines 129 and 167) on the packageLogger at address a
SetLevel(ph, a, l) == [ph EXCEPT ![a].level = l]

\* a mutant of SetEntry: an unknown package is registered with the level asked for
SetEntryCreating(h, k, v) ==
    IF k \in DOMAIN RepoEntries(h)
    THEN [repoHeap |-> repoHeap, pkgHeap |-> SetLevel(pkgHeap, RepoEntries(h)[k], v)]
    ELSE IF h = NIL
    THEN [repoHeap |-> repoHeap, pkgHeap |-> pkgHeap]
    ELSE [repoHeap |-> [repoHeap EXCEPT ![h] = Store(@, k, Len(pkgHeap) + 1)],
          pkgHeap |-> Append(pkgHeap, [pkg |-> k, level |-> v])]

\* lines 163-167: one round of SetLogLevel's loop, for key k with level v, on the
\* repoLogger behind handle h; the heaps after it
SetEntry(h, k, v) ==
    IF k \in DOMAIN RepoEntries(h)
    THEN [repoHeap |-> repoHeap, pkgHeap |-> SetLevel(pkgHeap, RepoEntries(h)[k], v)]
    ELSE [repoHeap |-> repoHeap, pkgHeap |-> pkgHeap]

----------------------------------------------------------------------------
(* setRepoLogLevelInternal: the loop of lines 128-130, one package per step, in
   any order (Go's map iteration order is unspecified); frame.todo holds the
   keys still to visit, frame.rl the label the caller goes on at *)

SetRepoLogLevelInternal(t) ==
    /\ alive
    /\ pc[t] = "internal"
    /\ IF frame[t].todo = {}
       THEN /\ pc' = [pc EXCEPT ![t] = frame[t].rl]
            /\ frame' = [frame EXCEPT ![t].todo =
                            IF frame[t].rl = "sl_range" THEN DOMAIN frame[t].m.kv ELSE {}]
            /\ UNCHANGED pkgHeap
       ELSE \E k \in frame[t].todo :
                /\ pkgHeap' = SetLevel(pkgHeap, RepoEntries(frame[t].r)[k], frame[t].l)
                /\ frame' = [frame EXCEPT ![t].todo = @ \ {k}]
                /\ UNCHANGED pc
    /\ UNCHANGED <<mutex, repoMap, formatter, repoHeap, ret, handles, returned, late, calls, alive>>

----------------------------------------------------------------------------
(* SetGlobalLogLevel *)

\* a mutant of ReposToVisit: the loop ends after its first round
ReposToVisitFirst(rm) ==
    IF DOMAIN rm.kv = {} THEN {} ELSE {CHOOSE k \in DOMAIN rm.kv : TRUE}

\* line 95: the keys the loop over logger.repoMap visits
ReposToVisit(rm) == DOMAIN rm.kv

SetGlobalLogLevelCall(t) ==
    \E l \in GlobalLevelInputs :
        Lock(t, [NoFrame EXCEPT !.op = "SetGlobalLogLevel", !.l = l,
                                !.todoR = ReposToVisit(repoMap)], "sg_range")

\* lines 95-97: the loop over the repositories, in any order
SetGlobalLogLevelRange(t) ==
    /\ alive
    /\ pc[t] = "sg_range"
    /\ IF frame[t].todoR = {}
       THEN /\ pc' = [pc EXCEPT ![t] = "unlock"]
            /\ UNCHANGED frame
       ELSE \E k \in frame[t].todoR :
                /\ frame' = [frame EXCEPT ![t].todoR = @ \ {k},
                                          ![t].r = repoMap.kv[k],
                                          ![t].todo = DOMAIN RepoEntries(repoMap.kv[k]),
                                          ![t].rl = "sg_range"]
                /\ pc' = [pc EXCEPT ![t] = "internal"]
    /\ UNCHANGED <<mutex, repoMap, formatter, repoHeap, pkgHeap, ret, handles, returned, late,
                   calls, alive>>

----------------------------------------------------------------------------
(* RepoLogger and MustRepoLogger *)

RepoLoggerCall(t) ==
    \E repo \in Repos :
        Lock(t, [NoFrame EXCEPT !.op = "RepoLogger", !.repo = repo], "rl_lookup")

\* MustRepoLogger starts with the call of RepoLogger (line 113)
MustRepoLoggerCall(t) ==
    \E repo \in Repos :
        Lock(t, [NoFrame EXCEPT !.op = "MustRepoLogger", !.repo = repo], "rl_lookup")

\* a mutant of RepoLookup: the repository map is made on first use, as in
\* NewPackageLogger
RepoLookupMaking(rm, repo) ==
    [rm |-> IF rm.nil THEN MakeMap ELSE rm,
     ok |-> repo \in DOMAIN rm.kv,
     r |-> IF repo \in DOMAIN rm.kv THEN rm.kv[repo] ELSE NIL]

\* line 104: r, ok := logger.repoMap[repo]; the map is left as it is
RepoLookup(rm, repo) ==
    [rm |-> rm,
     ok |-> repo \in DOMAIN rm.kv,
     r |-> IF repo \in DOMAIN rm.kv THEN rm.kv[repo] ELSE NIL]

\* a mutant of RepoLoggerLookup: the caller gets a copy of the repoLogger map as it
\* is at the lookup
RepoLoggerLookupCopying(t) ==
    /\ alive
    /\ pc[t] = "rl_lookup"
    /\ LET look == RepoLookup(repoMap, frame[t].repo)
       IN  /\ repoHeap' = IF look.ok THEN Append(repoHeap, repoHeap[look.r]) ELSE repoHeap
           /\ ret' = [ret EXCEPT ![t] =
                      IF ~look.ok
                      THEN [NoRet EXCEPT !.r = NIL, !.err = ErrorsNew(NoPackages, frame[t].repo)]
                      ELSE [NoRet EXCEPT !.r = Len(repoHeap) + 1]]
    /\ pc' = [pc EXCEPT ![t] = "unlock"]
    /\ UNCHANGED <<mutex, repoMap, formatter, pkgHeap, frame, handles, returned, late,
                   calls, alive>>

\* lines 104-108
RepoLoggerLookup(t) ==
    /\ alive
    /\ pc[t] = "rl_lookup"
    /\ LET look == RepoLookup(repoMap, frame[t].repo)
       IN  /\ repoMap' = look.rm
           /\ ret' = [ret EXCEPT ![t] =
                      IF ~look.ok
                      THEN [NoRet EXCEPT !.r = NIL, !.err = ErrorsNew(NoPackages, frame[t].repo)]
                      ELSE [NoRet EXCEPT !.r = look.r]]
    /\ pc' = [pc EXCEPT ![t] = "unlock"]
    /\ UNCHANGED <<mutex, formatter, repoHeap, pkgHeap, frame, handles, returned, late,
                   calls, alive>>

\* a mutant of MustPanic: the error is dropped and the nil handle returned
MustPanicNever(err) == FALSE

\* line 114
MustPanic(err) == err # NoErr

\* lines 114-117: panic on the error, else return the handle
MustRepoLoggerCheck(t) ==
    /\ alive
    /\ pc[t] = "must"
    /\ IF MustPanic(ret[t].err)
       THEN /\ pc' = [pc EXCEPT ![t] = "panic"]
            /\ UNCHANGED <<handles, frame, ret>>
       ELSE /\ pc' = [pc EXCEPT ![t] = "idle"]
            /\ handles' = handles \cup {ret[t].r}
            /\ frame' = [frame EXCEPT ![t] = NoFrame]
            /\ ret' = [ret EXCEPT ![t] = NoRet]
    /\ UNCHANGED <<mutex, repoMap, formatter, repoHeap, pkgHeap, returned, late, calls, alive>>

\* the panic of line 115 reaches a deferred recover() of the caller
Recover(t) ==
    /\ alive
    /\ pc[t] = "panic"
    /\ pc' = [pc EXCEPT ![t] = "idle"]
    /\ frame' = [frame EXCEPT ![t] = NoFrame]
    /\ ret' = [ret EXCEPT ![t] = NoRet]
    /\ UNCHANGED <<mutex, repoMap, formatter, repoHeap, pkgHeap, handles, returned, late,
                   calls, alive>>

\* the panic of line 115 is not recovered: the process ends
Crash(t) ==
    /\ alive
    /\ pc[t] = "panic"
    /\ alive' = FALSE
    /\ UNCHANGED <<mutex, repoMap, formatter, repoHeap, pkgHeap, pc, frame, ret, handles,
                   returned, late, calls>>

----------------------------------------------------------------------------
(* SetRepoLogLevel *)

SetRepoLogLevelCall(t) ==
    \E h \in handles, l \in LevelInputs :
        Lock(t, [NoFrame EXCEPT !.op = "SetRepoLogLevel", !.r = h, !.l = l], "sr_body")

\* line 124: the call of setRepoLogLevelInternal
SetRepoLogLevelBody(t) ==
    /\ alive
    /\ pc[t] = "sr_body"
    /\ frame' = [frame EXCEPT ![t].todo = DOMAIN RepoEntries(frame[t].r),
                              ![t].rl = "unlock"]
    /\ pc' = [pc EXCEPT ![t] = "internal"]
    /\ UNCHANGED <<mutex, repoMap, formatter, repoHeap, pkgHeap, ret, handles, returned, late,
                   calls, alive>>

----------------------------------------------------------------------------
(* SetLogLevel *)

\* the levels the callers ask for under key k: the package nobody has registered
\* is asked to be at TRACE
KeyLevels(k) == IF k = <<"u">> THEN {TRACE} ELSE LevelInputs

\* the mappings the callers build by hand
MapInputs ==
    {[nil |-> FALSE, kv |-> f] :
        f \in UNION {{g \in [K -> LevelInputs \cup {TRACE}] : \A k \in K : g[k] \in KeyLevels(k)} :
                        K \in {K \in SUBSET MapKeys : Cardinality(K) <= MaxKeys}}}

SetLogLevelCall(t) ==
    \E h \in handles, m \in MapInputs :
        Lock(t, [NoFrame EXCEPT !.op = "SetLogLevel", !.r = h, !.m = m], "sl_star")

\* SetLogLevel on the mapping the thread has just got from ParseLogLevelConfig
SetLogLevelParsedCall(t) ==
    /\ frame[t].op = "ParseLogLevelConfig"
    /\ ret[t].err = NoErr
    /\ \E h \in handles :
        Lock(t, [NoFrame EXCEPT !.op = "SetLogLevelParsed", !.r = h, !.m = ret[t].m],
             "sl_star")

\* the key of line 159
Star == <<"*">>

\* a mutant of HasStar: the "*" entry is treated like any other key
HasStarNever(m) == FALSE

\* line 159: m has a "*" entry
HasStar(m) == Star \in DOMAIN m.kv

\* lines 159-161: the "*" entry, if there is one, goes to every package first
SetLogLevelStar(t) ==
    /\ alive
    /\ pc[t] = "sl_star"
    /\ IF HasStar(frame[t].m)
       THEN /\ frame' = [frame EXCEPT ![t].l = frame[t].m.kv[Star],
                                      ![t].todo = DOMAIN RepoEntries(frame[t].r),
                                      ![t].rl = "sl_range"]
            /\ pc' = [pc EXCEPT ![t] = "internal"]
       ELSE /\ frame' = [frame EXCEPT ![t].todo = DOMAIN frame[t].m.kv]
            /\ pc' = [pc EXCEPT ![t] = "sl_range"]
    /\ UNCHANGED <<mutex, repoMap, formatter, repoHeap, pkgHeap, ret, handles, returned, late,
                   calls, alive>>

\* lines 162-168: the loop over the mapping, one key per step, in any order
SetLogLevelRange(t) ==
    /\ alive
    /\ pc[t] = "sl_range"
    /\ IF frame[t].todo = {}
       THEN /\ pc' = [pc EXCEPT ![t] = "unlock"]
            /\ UNCHANGED <<frame, repoHeap, pkgHeap>>
       ELSE \E k \in frame[t].todo :
                /\ frame' = [frame EXCEPT ![t].todo = @ \ {k}]
                /\ LET after == SetEntry(frame[t].r, k, frame[t].m.kv[k])
                   IN  /\ repoHeap' = after.repoHeap
                       /\ pkgHeap' = after.pkgHeap
                /\ UNCHANGED pc
    /\ UNCHANGED <<mutex, repoMap, formatter, ret, handles, returned, late, calls, alive>>

----------------------------------------------------------------------------
(* SetFormatter *)

SetFormatterCall(t) ==
    \E f \in Formatters :
        Lock(t, [NoFrame EXCEPT !.op = "SetFormatter", !.conf = <<f>>], "sf_set")

\* line 175
SetFormatterSet(t) ==
    /\ alive
    /\ pc[t] = "sf_set"
    /\ formatter' = frame[t].conf[1]
    /\ pc' = [pc EXCEPT ![t] = "unlock"]
    /\ UNCHANGED <<mutex, repoMap, repoHeap, pkgHeap, frame, ret, handles, returned, late,
                   calls, alive>>

----------------------------------------------------------------------------
(* ParseLogLevelConfig: takes no lock *)

\* "*=ERROR,b=DEBUG", "a=INFO=extra" and "a=D,b=bogus"
ConfInputs ==
    { <<"*","=","E","R","R","O","R",",","b","=","D","E","B","U","G">>,
      <<"a","=","I","N","F","O","=","e","x","t","r","a">>,
      <<"a","=","D",",","b","=","b","o","g","u","s">> }

ParseLogLevelConfigCall(t) ==
    /\ alive
    /\ pc[t] = "idle"
    /\ calls < MaxCalls
    /\ handles # {}
    /\ \E conf \in ConfInputs :
        frame' = [frame EXCEPT ![t] = [NoFrame EXCEPT !.op = "ParseLogLevelConfig",
                                                      !.conf = conf]]
    /\ pc' = [pc EXCEPT ![t] = "parse"]
    /\ calls' = calls + 1
    /\ UNCHANGED <<mutex, repoMap, formatter, repoHeap, pkgHeap, ret, handles, returned, late, alive>>

\* a mutant of ParseLogLevelConfigRun: the parser sets every package back to INFO
\* before it reads the configuration
ParseLogLevelConfigResetting(t) ==
    /\ alive
    /\ pc[t] = "parse"
    /\ LET res == ParseLogLevelConfig(frame[t].conf)
       IN  ret' = [ret EXCEPT ![t] = [NoRet EXCEPT !.m = res.m, !.err = res.err]]
    /\ pkgHeap' = [a \in DOMAIN pkgHeap |-> [pkgHeap[a] EXCEPT !.level = INFO]]
    /\ pc' = [pc EXCEPT ![t] = "ret"]
    /\ UNCHANGED <<mutex, repoMap, formatter, repoHeap, frame, handles, returned, late,
                   calls, alive>>

\* lines 136-149
ParseLogLevelConfigRun(t) ==
    /\ alive
    /\ pc[t] = "parse"
    /\ LET res == ParseLogLevelConfig(frame[t].conf)
       IN  ret' = [ret EXCEPT ![t] = [NoRet EXCEPT !.m = res.m, !.err = res.err]]
    /\ pc' = [pc EXCEPT ![t] = "ret"]
    /\ UNCHANGED <<mutex, repoMap, formatter, repoHeap, pkgHeap, frame, handles, returned, late,
                   calls, alive>>

----------------------------------------------------------------------------
(* The specifications *)

Next ==
    \E t \in Threads :
        \/ NewPackageLoggerCall(t)
        \/ NewPackageLoggerRepo(t)
        \/ NewPackageLoggerMakeRepo(t)
        \/ NewPackageLoggerPkg(t)
        \/ NewPackageLoggerMakePkg(t)
        \/ SetGlobalLogLevelCall(t)
        \/ SetGlobalLogLevelRange(t)
        \/ SetRepoLogLevelInternal(t)
        \/ RepoLoggerCall(t)
        \/ MustRepoLoggerCall(t)
        \/ RepoLoggerLookup(t)
        \/ MustRepoLoggerCheck(t)
        \/ Recover(t)
        \/ Crash(t)
        \/ SetRepoLogLevelCall(t)
        \/ SetRepoLogLevelBody(t)
        \/ SetLogLevelCall(t)
        \/ SetLogLevelParsedCall(t)
        \/ SetLogLevelStar(t)
        \/ SetLogLevelRange(t)
        \/ SetFormatterCall(t)
        \/ SetFormatterSet(t)
        \/ ParseLogLevelConfigCall(t)
        \/ ParseLogLevelConfigRun(t)
        \/ Unlock(t)
        \/ Return(t)

Spec == Init /\ [][Next]_vars

\* what thread t does next once it is inside a call that takes the mutex: every
\* statement up to the return
Proceed(t) ==
    \/ NewPackageLoggerRepo(t)
    \/ NewPackageLoggerMakeRepo(t)
    \/ NewPackageLoggerPkg(t)
    \/ NewPackageLoggerMakePkg(t)
    \/ SetGlobalLogLevelRange(t)
    \/ SetRepoLogLevelInternal(t)
    \/ RepoLoggerLookup(t)
    \/ MustRepoLoggerCheck(t)
    \/ SetRepoLogLevelBody(t)
    \/ SetLogLevelStar(t)
    \/ SetLogLevelRange(t)
    \/ SetFormatterSet(t)
    \/ Unlock(t)

\* the Go scheduler lets every goroutine that can run do so in the end
SpecFair == Spec /\ \A t \in Threads : WF_vars(Proceed(t))

----------------------------------------------------------------------------
(* ParseLogLevelConfig on its own, over the configuration strings put together
   from at most MaxPieces of these pieces *)

ConfPieces ==
    { <<"a","=","I">>, <<"a","=","D">>, <<"b","=">>, <<"x">>, <<"=">>, <<",">>,
      <<"E">>, <<"*">> }

RECURSIVE ConfsOf(_)
ConfsOf(n) ==
    IF n = 0 THEN {<<>>}
    ELSE ConfsOf(n - 1) \cup {c \o q : c \in ConfsOf(n - 1), q \in ConfPieces}

\* a first lookup has failed and left the nil handle, and a thread has called
\* ParseLogLevelConfig on it
InitParse ==
    /\ mutex = NoThread
    /\ repoMap = NilMap
    /\ formatter = "nil"
    /\ repoHeap = <<>>
    /\ pkgHeap = <<>>
    /\ \E u \in Threads, conf \in ConfsOf(MaxPieces) :
        /\ pc = [t \in Threads |-> IF t = u THEN "parse" ELSE "idle"]
        /\ frame = [t \in Threads |->
                       IF t = u
                       THEN [NoFrame EXCEPT !.op = "ParseLogLevelConfig", !.conf = conf]
                       ELSE NoFrame]
    /\ ret = [t \in Threads |-> NoRet]
    /\ handles = {NIL}
    /\ returned = {}
    /\ late = {}
    /\ calls = 2
    /\ alive = TRUE

NextParse == \E t \in Threads : ParseLogLevelConfigRun(t)

SpecParse == InitParse /\ [][NextParse]_vars

----------------------------------------------------------------------------
(* Char and ParseLevel on their own: Char over the LogLevel values around the
   seven levels, ParseLevel over what Char returned, over the strings of at most
   MaxLevelLen characters of LevelAlphabet, and over LevelWords *)

LevelValues == (CRITICAL - 1) .. (TRACE + 1)

LevelAlphabet ==
    {"C", "E", "W", "N", "I", "D", "T", "0", "1", "2", "3", "4", "5", "6", "-", "i"}

RECURSIVE StringsOver(_, _)
StringsOver(alphabet, n) ==
    IF n = 0 THEN {<<>>}
    ELSE StringsOver(alphabet, n - 1)
            \cup {s \o <<c>> : s \in StringsOver(alphabet, n - 1), c \in alphabet}

LevelWords ==
    { <<"C","R","I","T","I","C","A","L">>, <<"E","R","R","O","R">>,
      <<"W","A","R","N","I","N","G">>, <<"N","O","T","I","C","E">>, <<"I","N","F","O">>,
      <<"D","E","B","U","G">>, <<"T","R","A","C","E">>,
      <<"i","n","f","o">>, <<"I","n","f","o">>, <<"I","N","F","O"," ">>,
      <<"E","R","R">>, <<"W","A","R","N">>, <<"b","o","g","u","s">> }

LevelStrings == StringsOver(LevelAlphabet, MaxLevelLen) \cup LevelWords

\* a thread is about to run l.Char(), or ParseLevel(s)
InitLevel ==
    /\ mutex = NoThread
    /\ repoMap = NilMap
    /\ formatter = "nil"
    /\ repoHeap = <<>>
    /\ pkgHeap = <<>>
    /\ \E u \in Threads :
        \E f \in {[NoFrame EXCEPT !.op = "Char", !.l = l] : l \in LevelValues}
                 \cup {[NoFrame EXCEPT !.op = "ParseLevel", !.conf = s] : s \in LevelStrings} :
            /\ pc = [t \in Threads |->
                        IF t # u THEN "idle" ELSE IF f.op = "Char" THEN "char" ELSE "parselevel"]
            /\ frame = [t \in Threads |-> IF t = u THEN f ELSE NoFrame]
    /\ ret = [t \in Threads |-> NoRet]
    /\ handles = {}
    /\ returned = {}
    /\ late = {}
    /\ calls = 1
    /\ alive = TRUE

\* lines 30-49: l.Char() panics, or returns the character that the caller hands on
\* to ParseLevel
CharRun(t) ==
    /\ alive
    /\ pc[t] = "char"
    /\ LET c == Char(frame[t].l)
       IN  IF c = CharPanic
           THEN /\ pc' = [pc EXCEPT ![t] = "panic"]
                /\ ret' = [ret EXCEPT ![t].err = c]
                /\ UNCHANGED frame
           ELSE /\ pc' = [pc EXCEPT ![t] = "parselevel"]
                /\ frame' = [frame EXCEPT ![t].conf = c]
                /\ UNCHANGED ret
    /\ UNCHANGED <<mutex, repoMap, formatter, repoHeap, pkgHeap, handles, returned, late,
                   calls, alive>>

\* lines 52-70: ParseLevel(s) returns
ParseLevelRun(t) ==
    /\ alive
    /\ pc[t] = "parselevel"
    /\ LET res == ParseLevel(frame[t].conf)
       IN  ret' = [ret EXCEPT ![t] = [NoRet EXCEPT !.l = res.l, !.err = res.err]]
    /\ pc' = [pc EXCEPT ![t] = "ret"]
    /\ UNCHANGED <<mutex, repoMap, formatter, repoHeap, pkgHeap, frame, handles, returned,
                   late, calls, alive>>

NextLevel == \E t \in Threads : CharRun(t) \/ ParseLevelRun(t)

SpecLevel == InitLevel /\ [][NextLevel]_vars

----------------------------------------------------------------------------
(* The holder of a *packageLogger reads its level field on every log call without
   taking the mutex. The read races with the setters' writes: it yields the value
   the field holds, or the value it held when the call that now holds the mutex
   began. SpecRead has such readers beside NewPackageLogger, RepoLogger and
   SetLogLevel. *)

VisibleLevels(a) ==
    {pkgHeap[a].level}
        \cup (IF mutex \in Threads /\ a <= Len(frame[mutex].pre.pkgHeap)
              THEN {frame[mutex].pre.pkgHeap[a].level}
              ELSE {})

\* the caller that holds the packageLogger NewPackageLogger returned reads its level
ReadLevel(t) ==
    /\ alive
    /\ pc[t] = "ret"
    /\ frame[t].op = "NewPackageLogger"
    /\ \E v \in VisibleLevels(ret[t].p) : ret' = [ret EXCEPT ![t].l = v]
    /\ pc' = [pc EXCEPT ![t] = "seen"]
    /\ UNCHANGED <<mutex, repoMap, formatter, repoHeap, pkgHeap, frame, handles, returned,
                   late, calls, alive>>

\* the log call is over; the caller still holds the packageLogger
ReadDone(t) ==
    /\ alive
    /\ pc[t] = "seen"
    /\ ret' = [ret EXCEPT ![t].l = NoRet.l]
    /\ pc' = [pc EXCEPT ![t] = "ret"]
    /\ UNCHANGED <<mutex, repoMap, formatter, repoHeap, pkgHeap, frame, handles, returned,
                   late, calls, alive>>

NextRead ==
    \E t \in Threads :
        \/ NewPackageLoggerCall(t)
        \/ NewPackageLoggerRepo(t)
        \/ NewPackageLoggerMakeRepo(t)
        \/ NewPackageLoggerPkg(t)
        \/ NewPackageLoggerMakePkg(t)
        \/ RepoLoggerCall(t)
        \/ RepoLoggerLookup(t)
        \/ SetLogLevelCall(t)
        \/ SetLogLevelStar(t)
        \/ SetRepoLogLevelInternal(t)
        \/ SetLogLevelRange(t)
        \/ Unlock(t)
        \/ Return(t)
        \/ ReadLevel(t)
        \/ ReadDone(t)

SpecRead == Init /\ [][NextRead]_vars

----------------------------------------------------------------------------
(* Reading a registry reg: the current one, Registry, or the one a thread found
   when it took the lock, frame[t].pre *)

IsRegistered(reg, repo, pkg) ==
    /\ repo \in DOMAIN reg.repoMap.kv
    /\ pkg \in DOMAIN reg.repoHeap[reg.repoMap.kv[repo]]

AddrOf(reg, repo, pkg) == reg.repoHeap[reg.repoMap.kv[repo]][pkg]

LevelOf(reg, repo, pkg) == reg.pkgHeap[AddrOf(reg, repo, pkg)].level

Pairs(reg) ==
    {pr \in Repos \X (PkgNames \cup MapKeys) : IsRegistered(reg, pr[1], pr[2])}

\* the addresses of the packageLoggers of the repoLogger at address h of reg
AddrsIn(reg, h) ==
    IF h = NIL THEN {} ELSE {reg.repoHeap[h][k] : k \in DOMAIN reg.repoHeap[h]}

\* thread t has run the body of operation op and is about to unlock and return
Completing(t, op) == pc[t] = "unlock" /\ frame[t].op = op

----------------------------------------------------------------------------
(* C1: NewPackageLogger for a pair that is already registered returns the handle
   of the existing PackageLogger and leaves the whole registry as it was (the
   Level is not set back to INFO); and a handle a caller holds stays the handle
   of the registered PackageLogger, so the Level read through it is the one the
   registry's setters wrote, whichever call returned it. *)
C1_Idempotent ==
    \A t \in Threads :
        /\ ( /\ Completing(t, "NewPackageLogger")
             /\ IsRegistered(frame[t].pre, frame[t].repo, frame[t].pkg) )
           => /\ Registry = frame[t].pre
              /\ ret[t].p = AddrOf(frame[t].pre, frame[t].repo, frame[t].pkg)
        /\ (pc[t] = "ret" /\ frame[t].op = "NewPackageLogger")
           => /\ IsRegistered(Registry, frame[t].repo, frame[t].pkg)
              /\ ret[t].p = AddrOf(Registry, frame[t].repo, frame[t].pkg)

\* a second call for a pair completes while the first caller holds its handle and
\* the Level has been changed in between
C1_Witness ==
    \E t, u \in Threads :
        /\ t # u
        /\ Completing(t, "NewPackageLogger")
        /\ pc[u] = "ret" /\ frame[u].op = "NewPackageLogger"
        /\ frame[u].repo = frame[t].repo /\ frame[u].pkg = frame[t].pkg
        /\ IsRegistered(frame[t].pre, frame[t].repo, frame[t].pkg)
        /\ LevelOf(frame[t].pre, frame[t].repo, frame[t].pkg) # INFO

----------------------------------------------------------------------------
(* C2: however the calls of the threads interleave, one repoLogger is made per
   repository and one packageLogger per (repo, pkg) pair -- every repoLogger and
   every packageLogger ever made is the registered one of exactly one name -- and
   all callers holding a handle for a pair hold the same one. *)
C2_OnePerPair ==
    /\ Len(repoHeap) = Cardinality(DOMAIN repoMap.kv)
    /\ \A repo \in DOMAIN repoMap.kv : repoMap.kv[repo] \in 1..Len(repoHeap)
    /\ Len(pkgHeap) = Cardinality(Pairs(Registry))
    /\ \A pr \in Pairs(Registry) : AddrOf(Registry, pr[1], pr[2]) \in 1..Len(pkgHeap)
    /\ \A t, u \in Threads :
        ( /\ pc[t] = "ret" /\ frame[t].op = "NewPackageLogger"
          /\ pc[u] = "ret" /\ frame[u].op = "NewPackageLogger"
          /\ frame[t].repo = frame[u].repo /\ frame[t].pkg = frame[u].pkg )
        => ret[t].p = ret[u].p

\* two threads have called NewPackageLogger for the same pair and both hold the result
C2_Witness ==
    \E t, u \in Threads :
        /\ t # u
        /\ pc[t] = "ret" /\ frame[t].op = "NewPackageLogger"
        /\ pc[u] = "ret" /\ frame[u].op = "NewPackageLogger"
        /\ frame[t].repo = frame[u].repo /\ frame[t].pkg = frame[u].pkg
        /\ ret[t].p # NIL

----------------------------------------------------------------------------
(* C3: when SetLogLevel(m) on the repoLogger r is through, every package p of r
   has the Level m[p] if p is a key of m, else m["*"] if "*" is a key of m, else
   the Level it had before the call; the loop visits the keys in every order. *)
IsSetLogLevel(t) == frame[t].op \in {"SetLogLevel", "SetLogLevelParsed"}

C3_SetLogLevelResult ==
    \A t \in Threads :
        (pc[t] = "unlock" /\ IsSetLogLevel(t)) =>
            LET m == frame[t].m.kv
                r == RepoEntries(frame[t].r)
            IN  \A p \in DOMAIN r :
                    pkgHeap[r[p]].level =
                        IF p \in DOMAIN m THEN m[p]
                        ELSE IF <<"*">> \in DOMAIN m THEN m[<<"*">>]
                        ELSE frame[t].pre.pkgHeap[r[p]].level

\* the repository has a package that m names with a Level other than m["*"], and
\* one that m does not name
C3_Witness ==
    \E t \in Threads :
        /\ pc[t] = "unlock" /\ IsSetLogLevel(t)
        /\ LET m == frame[t].m.kv
               r == RepoEntries(frame[t].r)
           IN  /\ <<"*">> \in DOMAIN m
               /\ \E p, q \in DOMAIN r :
                    /\ p \in DOMAIN m /\ m[p] # m[<<"*">>]
                    /\ q \notin DOMAIN m
                    /\ frame[t].pre.pkgHeap[r[q]].level # m[<<"*">>]

----------------------------------------------------------------------------
(* C4: SetLogLevel(m) where no key of m is "*" or a package the repository has
   when the call starts changes nothing at any of its steps -- no Level, no package, no repository --
   and ends without an error or a panic. *)
PreEntries(t) == IF frame[t].r = NIL THEN <<>> ELSE frame[t].pre.repoHeap[frame[t].r]

C4_UnknownKeysIgnored ==
    \A t \in Threads :
        ( /\ IsSetLogLevel(t)
          /\ DOMAIN frame[t].m.kv \cap ({<<"*">>} \cup DOMAIN PreEntries(t)) = {} )
        => /\ pc[t] \in {"sl_star", "sl_range", "unlock"}
           /\ Registry = frame[t].pre
           /\ ret[t] = NoRet

\* such a call, with an unknown key, is through on a repository that has packages
C4_Witness ==
    \E t \in Threads :
        /\ pc[t] = "unlock" /\ IsSetLogLevel(t)
        /\ DOMAIN frame[t].m.kv # {}
        /\ DOMAIN PreEntries(t) # {}
        /\ DOMAIN frame[t].m.kv \cap ({<<"*">>} \cup DOMAIN PreEntries(t)) = {}

----------------------------------------------------------------------------
(* C5: when SetGlobalLogLevel(l) is through, every PackageLogger registered then,
   in every repository, has Level l, whatever its Level was before; nothing is
   registered or removed by it, and on a registry without registrations it
   changes nothing. *)
C5_GlobalLevel ==
    \A t \in Threads :
        Completing(t, "SetGlobalLogLevel") =>
            /\ \A pr \in Pairs(Registry) : LevelOf(Registry, pr[1], pr[2]) = frame[t].l
            /\ \A a \in 1..Len(pkgHeap) : pkgHeap[a].level = frame[t].l
            /\ Pairs(Registry) = Pairs(frame[t].pre)
            /\ (Pairs(frame[t].pre) = {} => Registry = frame[t].pre)

\* SetGlobalLogLevel(l) is through on a registry in which a Level had been set to
\* something other than INFO and l
C5_Witness ==
    \E t \in Threads :
        /\ Completing(t, "SetGlobalLogLevel")
        /\ \E pr \in Pairs(frame[t].pre) :
            LevelOf(frame[t].pre, pr[1], pr[2]) \notin {INFO, frame[t].l}

----------------------------------------------------------------------------
(* C6: when SetRepoLogLevel(l) on the repoLogger r is through, every package of
   r has Level l and nothing else has changed: every other packageLogger, of
   whatever name, is as before, and so are the repositories, their packages and
   the formatter. *)
C6_RepoLevelFrame ==
    \A t \in Threads :
        Completing(t, "SetRepoLogLevel") =>
            LET pre == frame[t].pre
                mine == AddrsIn(pre, frame[t].r)
            IN  /\ repoMap = pre.repoMap
                /\ repoHeap = pre.repoHeap
                /\ formatter = pre.formatter
                /\ Len(pkgHeap) = Len(pre.pkgHeap)
                /\ \A a \in 1..Len(pkgHeap) :
                    IF a \in mine
                    THEN pkgHeap[a] = [pre.pkgHeap[a] EXCEPT !.level = frame[t].l]
                    ELSE pkgHeap[a] = pre.pkgHeap[a]

\* SetRepoLogLevel(l) is through on a repository with a package whose name another
\* repository has too, at a Level other than l
C6_Witness ==
    \E t \in Threads :
        /\ Completing(t, "SetRepoLogLevel")
        /\ frame[t].r # NIL
        /\ \E pr \in Pairs(Registry) :
            /\ repoMap.kv[pr[1]] # frame[t].r
            /\ pr[2] \in DOMAIN repoHeap[frame[t].r]
            /\ LevelOf(Registry, pr[1], pr[2]) # frame[t].l

----------------------------------------------------------------------------
(* C7: RepoLogger(repo) fails, with the not-found error naming repo and the nil
   handle, exactly when no NewPackageLogger(repo, _) call has returned before it,
   and else returns the repository's handle without an error; either way the
   registry is as it was, a repository map that was never made included. *)
NotFoundError(repo) == <<"no packages registered for repo ">> \o repo

HasReturned(repo) == \E pkg \in PkgNames : <<repo, pkg>> \in returned

C7_RepoLoggerLookup ==
    \A t \in Threads :
        Completing(t, "RepoLogger") =>
            /\ Registry = frame[t].pre
            /\ IF HasReturned(frame[t].repo)
               THEN /\ ret[t].err = NoErr
                    /\ ret[t].r # NIL
                    /\ ret[t].r = repoMap.kv[frame[t].repo]
               ELSE /\ ret[t].err = NotFoundError(frame[t].repo)
                    /\ ret[t].r = NIL

\* a lookup succeeds after an earlier one, on the registry as it starts, has failed
C7_Witness ==
    \E t \in Threads :
        /\ Completing(t, "RepoLogger")
        /\ ret[t].err = NoErr
        /\ NIL \in handles

----------------------------------------------------------------------------
(* C8: MustRepoLogger(repo) does the lookup of RepoLogger(repo): what the lookup
   yields is what RepoLogger yields on that registry; it panics exactly when
   that is the not-found error and else hands the caller the handle; none of its
   steps changes the registry. *)
RepoLoggerResult(reg, repo) ==
    IF repo \in DOMAIN reg.repoMap.kv
    THEN [NoRet EXCEPT !.r = reg.repoMap.kv[repo]]
    ELSE [NoRet EXCEPT !.err = NotFoundError(repo)]

C8_MustRepoLogger ==
    [][\A t \in Threads :
        (frame[t].op = "MustRepoLogger" /\ pc'[t] # pc[t]) =>
            /\ Registry' = Registry
            /\ pc[t] = "rl_lookup" =>
                ret'[t] = RepoLoggerResult(Registry, frame[t].repo)
            /\ pc[t] = "must" =>
                IF ret[t].err # NoErr
                THEN pc'[t] = "panic" /\ handles' = handles
                ELSE pc'[t] = "idle" /\ ret[t].r # NIL /\ ret[t].r \in handles'
      ]_vars

\* MustRepoLogger has panicked on a repository without packages while another one
\* has packages
C8_Witness ==
    \E t \in Threads :
        /\ pc[t] = "panic"
        /\ frame[t].op = "MustRepoLogger"
        /\ ret[t].err = NotFoundError(frame[t].repo)
        /\ DOMAIN repoMap.kv # {}

----------------------------------------------------------------------------
(* The tokens of a configuration string, read off the places of its commas *)

CommasOf(conf) == {i \in 1..Len(conf) : conf[i] = ","}

NumTokens(conf) == Cardinality(CommasOf(conf)) + 1

\* the place of the k-th comma; 0 before the first, Len(conf) + 1 after the last
CommaPlace(conf, k) ==
    IF k = 0 THEN 0
    ELSE IF k > Cardinality(CommasOf(conf)) THEN Len(conf) + 1
    ELSE CHOOSE i \in CommasOf(conf) :
            Cardinality({j \in CommasOf(conf) : j <= i}) = k

TokenAt(conf, k) == SubSeq(conf, CommaPlace(conf, k - 1) + 1, CommaPlace(conf, k) - 1)

EqualsIn(tok) == {i \in 1..Len(tok) : tok[i] = "="}

\* the error a token is rejected with, NoErr for a well-formed one
TokenError(tok) ==
    IF Cardinality(EqualsIn(tok)) # 1
    THEN <<"oddly structured 'pkg=level' option: ">> \o tok
    ELSE LET i == CHOOSE i \in EqualsIn(tok) : TRUE
         IN  ParseLevel(SubSeq(tok, i + 1, Len(tok))).err

BadTokens(conf) == {k \in 1..NumTokens(conf) : TokenError(TokenAt(conf, k)) # NoErr}

FirstBad(conf) == CHOOSE k \in BadTokens(conf) : \A j \in BadTokens(conf) : k <= j

IsParsed(t) == pc[t] = "ret" /\ frame[t].op = "ParseLogLevelConfig"

----------------------------------------------------------------------------
(* C9: ParseLogLevelConfig(conf) fails with the error of the first token, in
   input order, that has not exactly one `=` (the structural error naming the
   token) or whose level part ParseLevel rejects (ParseLevel's error), and then
   returns no mapping; it returns a mapping and no error exactly when every
   token is well-formed. *)
C9_FirstErrorWins ==
    \A t \in Threads :
        IsParsed(t) =>
            LET conf == frame[t].conf
            IN  IF BadTokens(conf) = {}
                THEN ret[t].err = NoErr /\ ~ret[t].m.nil
                ELSE /\ ret[t].err = TokenError(TokenAt(conf, FirstBad(conf)))
                     /\ ret[t].m = NilMap

\* the first bad token has a level ParseLevel rejects and a later one is oddly
\* structured: the call has failed with ParseLevel's error
C9_Witness ==
    \E t \in Threads :
        /\ IsParsed(t)
        /\ LET conf == frame[t].conf
           IN  /\ BadTokens(conf) # {}
               /\ FirstBad(conf) > 1
               /\ Cardinality(EqualsIn(TokenAt(conf, FirstBad(conf)))) = 1
               /\ \E k \in BadTokens(conf) :
                    /\ k > FirstBad(conf)
                    /\ Cardinality(EqualsIn(TokenAt(conf, k))) # 1
        /\ ret[t].err # NoErr

----------------------------------------------------------------------------
(* C10: neither step of ParseLogLevelConfig -- the call, the parsing -- changes
   the registry: repositories, packages, every Level and the formatter are after
   it what they were before, whether the string is accepted or rejected. *)
C10_ParseIsPure ==
    [][\A t \in Threads :
        ( \/ pc[t] = "idle" /\ pc'[t] = "parse"
          \/ pc[t] = "parse" /\ pc'[t] = "ret" )
        => /\ Registry' = Registry
           /\ mutex' = mutex
      ]_vars

\* a configuration string has been rejected on a registry in which a Level had
\* been changed
C10_Witness ==
    \E t \in Threads :
        /\ IsParsed(t)
        /\ ret[t].err # NoErr
        /\ \E pr \in Pairs(Registry) : LevelOf(Registry, pr[1], pr[2]) # INFO

----------------------------------------------------------------------------
(* The serializations of a level: its name, its character, its number *)

CanonicalName(l) ==
    CASE l = CRITICAL -> <<"C","R","I","T","I","C","A","L">>
      [] l = ERROR    -> <<"E","R","R","O","R">>
      [] l = WARNING  -> <<"W","A","R","N","I","N","G">>
      [] l = NOTICE   -> <<"N","O","T","I","C","E">>
      [] l = INFO     -> <<"I","N","F","O">>
      [] l = DEBUG    -> <<"D","E","B","U","G">>
      [] l = TRACE    -> <<"T","R","A","C","E">>

Digits == <<"0", "1", "2", "3", "4", "5">>

\* the decimal digit of a level from ERROR to TRACE
DigitString(l) == <<Digits[l + 1]>>

Serializations(l) ==
    {CanonicalName(l), Char(l)} \cup (IF l >= ERROR THEN {DigitString(l)} ELSE {})

\* thread t has its answer from ParseLevel
IsLevelParsed(t) == pc[t] = "ret" /\ frame[t].op \in {"Char", "ParseLevel"}

(* C11: ParseLevel undoes every serialization of a level: handed the canonical
   name of one of the seven levels, its Char(), or (from ERROR to TRACE) its digit,
   it returns that level and no error; a character that Char() returned parses
   back to the level Char() was called on; and Char() gives the seven levels
   seven different characters. *)
C11_ParseLevelLeftInverse ==
    /\ \A t \in Threads :
        IsLevelParsed(t) =>
            /\ \A l \in Levels :
                frame[t].conf \in Serializations(l) =>
                    ret[t].l = l /\ ret[t].err = NoErr
            /\ frame[t].op = "Char" => ret[t].l = frame[t].l /\ ret[t].err = NoErr
    /\ \A l1, l2 \in Levels : Char(l1) = Char(l2) => l1 = l2

\* TRACE.Char() has returned "T", and ParseLevel has made TRACE of it again
C11_Witness ==
    \E t \in Threads :
        /\ IsLevelParsed(t)
        /\ frame[t].op = "Char"
        /\ frame[t].l = TRACE
        /\ frame[t].conf = <<"T">>
        /\ ret[t].l = TRACE
        /\ ret[t].err = NoErr

----------------------------------------------------------------------------
\* s occurs in msg
Contains(msg, s) ==
    \E i \in 1 .. (Len(msg) - Len(s) + 1) : SubSeq(msg, i, i + Len(s) - 1) = s

LevelLetters == {"C", "E", "W", "N", "I", "D", "T"}

\* the seven names, the seven characters, the digits "0" to "5"
AcceptedStrings ==
    {CanonicalName(l) : l \in Levels}
        \cup {<<c>> : c \in LevelLetters}
        \cup {<<Digits[i]>> : i \in 1 .. Len(Digits)}

(* C12: for every string s that is not one of the seven names, the seven
   characters or the digits "0" to "5", ParseLevel(s) returns an error whose message
   contains s, and the call returns: it does not panic. *)
C12_ParseLevelRejects ==
    \A t \in Threads :
        (frame[t].op = "ParseLevel" /\ frame[t].conf \notin AcceptedStrings) =>
            /\ pc[t] \in {"parselevel", "ret"}
            /\ pc[t] = "ret" =>
                /\ ret[t].err # NoErr
                /\ Contains(ret[t].err, frame[t].conf)

\* ParseLevel has turned down "-1", the number of CRITICAL
C12_Witness ==
    \E t \in Threads :
        /\ IsLevelParsed(t)
        /\ frame[t].op = "ParseLevel"
        /\ frame[t].conf = <<"-", "1">>
        /\ ret[t].err = ErrorsNew(CouldntParse, <<"-", "1">>)

----------------------------------------------------------------------------
\* the places between logger.Lock() and the deferred logger.Unlock()
CriticalLabels ==
    {"npl_repo", "npl_mkrepo", "npl_pkg", "npl_mkpkg", "sg_range", "internal", "rl_lookup",
     "sr_body", "sl_star", "sl_range", "sf_set", "unlock"}

InCriticalSection(t) == pc[t] \in CriticalLabels

\* the levels the call of thread t may write
LevelsToWrite(t) ==
    IF frame[t].op \in {"SetGlobalLogLevel", "SetRepoLogLevel"} THEN {frame[t].l}
    ELSE IF IsSetLogLevel(t) THEN {frame[t].m.kv[k] : k \in DOMAIN frame[t].m.kv}
    ELSE {}

\* how many objects the call of thread t may make
MayMake(t) == IF frame[t].op = "NewPackageLogger" THEN 1 ELSE 0

\* all that differs between the registry the call of thread t found and the registry
\* now is what this call may have written
OnlyOwnWrites(t) ==
    LET pre == frame[t].pre
    IN  /\ \/ formatter = pre.formatter
           \/ (frame[t].op = "SetFormatter" /\ <<formatter>> = frame[t].conf)
        /\ \/ repoMap = pre.repoMap
           \/ frame[t].op = "NewPackageLogger"
        /\ Len(repoHeap) <= Len(pre.repoHeap) + MayMake(t)
        /\ Len(pkgHeap) <= Len(pre.pkgHeap) + MayMake(t)
        /\ \A a \in 1 .. Len(pre.pkgHeap) :
            /\ a <= Len(pkgHeap)
            /\ pkgHeap[a].pkg = pre.pkgHeap[a].pkg
            /\ pkgHeap[a].level \in {pre.pkgHeap[a].level} \cup LevelsToWrite(t)

(* C13: the registry's operations run one at a time: at most one thread is between
   Lock and Unlock, it is the thread holding the mutex, and while it is there the
   registry differs from the one it found only by its own writes, so that the calls
   take effect in the order in which they took the lock; a SetGlobalLogLevel call
   that is through, whatever ran beside it, leaves all packages at one level. *)
C13_Serialized ==
    /\ \A t, u \in Threads : (InCriticalSection(t) /\ InCriticalSection(u)) => t = u
    /\ \A t \in Threads : InCriticalSection(t) <=> mutex = t
    /\ \A t \in Threads : InCriticalSection(t) => OnlyOwnWrites(t)
    /\ \A t \in Threads :
        Completing(t, "SetGlobalLogLevel") =>
            \A a, b \in 1 .. Len(pkgHeap) : pkgHeap[a].level = pkgHeap[b].level

\* a SetGlobalLogLevel(TRACE + 1) call has been through, a SetGlobalLogLevel(CRITICAL)
\* call is half way, one package at CRITICAL already and one not yet, and the other
\* thread is kept out
C13_Witness ==
    \E t \in Threads :
        /\ pc[t] \in {"sg_range", "internal"}
        /\ frame[t].op = "SetGlobalLogLevel"
        /\ frame[t].l = CRITICAL
        /\ mutex = t
        /\ \A u \in Threads \ {t} : pc[u] = "idle"
        /\ \A a \in 1 .. Len(frame[t].pre.pkgHeap) : frame[t].pre.pkgHeap[a].level = TRACE + 1
        /\ \E a, b \in 1 .. Len(pkgHeap) :
            pkgHeap[a].level = CRITICAL /\ pkgHeap[b].level = TRACE + 1

----------------------------------------------------------------------------
(* C14: in every reachable state the level of every packageLogger is one of the
   seven levels from CRITICAL to TRACE. *)
C14_AllLevelsValid ==
    \A a \in 1 .. Len(pkgHeap) : pkgHeap[a].level \in Levels

----------------------------------------------------------------------------
(* C15: on every step the repositories keep their repoLoggers and the registered
   (repository, package) pairs keep their packageLoggers, each under its name: none
   is removed or replaced; and a step that adds a repository or a pair is a step of
   a NewPackageLogger call. *)
C15_OnlyGrows ==
    [][ /\ \A repo \in DOMAIN repoMap.kv :
            /\ repo \in DOMAIN repoMap'.kv
            /\ repoMap'.kv[repo] = repoMap.kv[repo]
        /\ \A h \in 1 .. Len(repoHeap) :
            /\ h <= Len(repoHeap')
            /\ \A k \in DOMAIN repoHeap[h] :
                /\ k \in DOMAIN repoHeap'[h]
                /\ repoHeap'[h][k] = repoHeap[h][k]
        /\ \A a \in 1 .. Len(pkgHeap) :
            /\ a <= Len(pkgHeap')
            /\ pkgHeap'[a].pkg = pkgHeap[a].pkg
        /\ (repoMap' # repoMap \/ repoHeap' # repoHeap \/ Len(pkgHeap') # Len(pkgHeap)) =>
            /\ mutex \in Threads
            /\ frame[mutex].op = "NewPackageLogger"
            /\ mutex' = mutex ]_vars

\* SetLogLevel with a "*" and a key that is no package is through in a repository of
\* two packages: it has changed levels and left the pairs as they were
C15_Witness ==
    \E t \in Threads :
        /\ pc[t] = "unlock" /\ IsSetLogLevel(t)
        /\ <<"u">> \in DOMAIN frame[t].m.kv
        /\ Cardinality(Pairs(Registry)) >= 2
        /\ Pairs(Registry) = Pairs(frame[t].pre)
        /\ pkgHeap # frame[t].pre.pkgHeap

----------------------------------------------------------------------------
\* thread t is through with a NewPackageLogger call for a pair that was not
\* registered when the call took the lock
RegistersNew(t) ==
    /\ Completing(t, "NewPackageLogger")
    /\ ~IsRegistered(frame[t].pre, frame[t].repo, frame[t].pkg)

(* C16: a NewPackageLogger call that registers a pair returns a packageLogger whose
   level is INFO, whatever levels the setters had written before the call; and the
   call changes the level of no packageLogger that was there before. *)
C16_StartsAtInfo ==
    \A t \in Threads :
        RegistersNew(t) =>
            /\ ret[t].p = AddrOf(Registry, frame[t].repo, frame[t].pkg)
            /\ pkgHeap[ret[t].p].level = INFO
            /\ \A a \in 1 .. Len(frame[t].pre.pkgHeap) : pkgHeap[a] = frame[t].pre.pkgHeap[a]

\* a package is registered at INFO in a repository whose other package a setter had
\* moved away from INFO before the call
C16_Witness ==
    \E t \in Threads :
        /\ RegistersNew(t)
        /\ pkgHeap[ret[t].p].level = INFO
        /\ \E pkg \in PkgNames :
            /\ IsRegistered(frame[t].pre, frame[t].repo, pkg)
            /\ LevelOf(frame[t].pre, frame[t].repo, pkg) # INFO

----------------------------------------------------------------------------
\* the place of the `=` of a well-formed token, the name before it, the level after it
EqualsPlace(tok) == CHOOSE i \in EqualsIn(tok) : TRUE

NameOf(tok) == SubSeq(tok, 1, EqualsPlace(tok) - 1)

LevelPartOf(tok) == SubSeq(tok, EqualsPlace(tok) + 1, Len(tok))

\* the tokens of conf that name the package
TokensNaming(conf, name) == {k \in 1 .. NumTokens(conf) : NameOf(TokenAt(conf, k)) = name}

LastNaming(conf, name) ==
    CHOOSE k \in TokensNaming(conf, name) : \A j \in TokensNaming(conf, name) : j <= k

(* C17: when every token of conf is well-formed, the mapping ParseLogLevelConfig
   returns has one entry for each package name that a token of conf names and no
   other entry, and the entry of a name holds the level of the last token, in input
   order, that names it. *)
C17_LastTokenWins ==
    \A t \in Threads :
        (IsParsed(t) /\ BadTokens(frame[t].conf) = {}) =>
            LET conf == frame[t].conf
                kv == ret[t].m.kv
            IN  /\ ret[t].err = NoErr
                /\ DOMAIN kv = {NameOf(TokenAt(conf, k)) : k \in 1 .. NumTokens(conf)}
                /\ \A name \in DOMAIN kv :
                    kv[name] = ParseLevel(LevelPartOf(TokenAt(conf, LastNaming(conf, name)))).l

\* "a=I,a=D" has been parsed: one entry, a at DEBUG
C17_Witness ==
    \E t \in Threads :
        /\ IsParsed(t)
        /\ frame[t].conf = <<"a", "=", "I", ",", "a", "=", "D">>
        /\ ret[t].err = NoErr
        /\ DOMAIN ret[t].m.kv = {<<"a">>}
        /\ ret[t].m.kv[<<"a">>] = DEBUG

----------------------------------------------------------------------------
\* thread u is inside a SetLogLevel call whose mapping has a "*"
InStarCall(u) == InCriticalSection(u) /\ IsSetLogLevel(u) /\ Star \in DOMAIN frame[u].m.kv

\* the keys of the mapping that are packages of the repository, "*" aside
KeyedPackages(u) == (DOMAIN frame[u].m.kv \cap DOMAIN PreEntries(u)) \ {Star}

\* the level of package k of the repository at each place of the call of thread u:
\* as found until the "*" loop visits k, then m["*"] until the loop over m visits k,
\* then m[k]
LevelByProgress(u, k) ==
    IF pc[u] = "sl_star" \/ (pc[u] = "internal" /\ k \in frame[u].todo)
    THEN frame[u].pre.pkgHeap[PreEntries(u)[k]].level
    ELSE IF pc[u] = "internal" \/ (pc[u] = "sl_range" /\ k \in frame[u].todo)
    THEN frame[u].m.kv[Star]
    ELSE frame[u].m.kv[k]

(* C18: inside a SetLogLevel call whose mapping has a "*" and a key k that is a
   package of the repository, the level of k is the one the call found, then m["*"],
   then m[k]: two writes; a read without the mutex made during the call yields one of
   these three values; and no other thread is between Lock and Unlock during the
   call, so a caller that takes the mutex finds the level as a whole call left it. *)
C18_TwoWrites ==
    /\ [](\A u \in Threads :
            InStarCall(u) =>
                /\ \A k \in KeyedPackages(u) :
                    pkgHeap[PreEntries(u)[k]].level = LevelByProgress(u, k)
                /\ \A t \in Threads \ {u} : ~InCriticalSection(t))
    /\ [][ \A u, t \in Threads :
            (InStarCall(u) /\ pc[t] = "ret" /\ pc'[t] = "seen") =>
                \A k \in KeyedPackages(u) :
                    ret[t].p = PreEntries(u)[k] =>
                        ret'[t].l \in {frame[u].pre.pkgHeap[ret[t].p].level,
                                       frame[u].m.kv[Star], frame[u].m.kv[k]} ]_vars

\* a reader of package b has seen m["*"] during a SetLogLevel call that found b at
\* another level and leaves it at m["b"], another level again
C18_Witness ==
    \E u, t \in Threads :
        /\ InStarCall(u)
        /\ pc[t] = "seen"
        /\ <<"b">> \in KeyedPackages(u)
        /\ ret[t].p = PreEntries(u)[<<"b">>]
        /\ ret[t].l = frame[u].m.kv[Star]
        /\ ret[t].l # frame[u].pre.pkgHeap[ret[t].p].level
        /\ ret[t].l # frame[u].m.kv[<<"b">>]

----------------------------------------------------------------------------
\* the packageLoggers that the repoLogger at address h holds now
LivePackages(h) == AddrsIn(Registry, h)

(* C19: a repoLogger handed out by RepoLogger or MustRepoLogger is the map the
   registry itself holds for a repository, so handles for one repository are one and
   the same map; and when SetRepoLogLevel(l) or SetLogLevel(m) on a handle is
   through, the packages the repository has now, those registered after the handle
   was handed out included, are at l, or at what m gives for their name. *)
C19_LiveHandle ==
    /\ \A h \in handles \ {NIL} : \E repo \in DOMAIN repoMap.kv : repoMap.kv[repo] = h
    /\ late \subseteq UNION {LivePackages(h) : h \in handles}
    /\ \A t \in Threads :
        Completing(t, "SetRepoLogLevel") =>
            \A a \in LivePackages(frame[t].r) : pkgHeap[a].level = frame[t].l
    /\ \A t \in Threads :
        (pc[t] = "unlock" /\ IsSetLogLevel(t) /\ frame[t].r # NIL) =>
            \A k \in DOMAIN repoHeap[frame[t].r] :
                LET kv == frame[t].m.kv
                IN  /\ k \in DOMAIN kv => pkgHeap[repoHeap[frame[t].r][k]].level = kv[k]
                    /\ (k \notin DOMAIN kv /\ Star \in DOMAIN kv) =>
                            pkgHeap[repoHeap[frame[t].r][k]].level = kv[Star]

\* SetRepoLogLevel on a handle is through and has set the level of a package that
\* was registered when callers held the handle already
C19_Witness ==
    \E t \in Threads :
        /\ Completing(t, "SetRepoLogLevel")
        /\ \E a \in late \cap LivePackages(frame[t].r) :
            /\ frame[t].pre.pkgHeap[a].level = INFO
            /\ pkgHeap[a].level = frame[t].l
        /\ \E a \in LivePackages(frame[t].r) : a \notin late

----------------------------------------------------------------------------
\* thread t is inside a call that takes the mutex: between Lock and Unlock, or
\* between MustRepoLogger's lookup and its check
InCall(t) == InCriticalSection(t) \/ pc[t] = "must"

(* C20: the mutex is held exactly while a thread is between Lock and Unlock, so it
   is free when no call is in progress, also after a lookup that found nothing and
   when MustRepoLogger panics; a thread inside a call can always take its next
   step; and with every thread scheduled again and again, every call that has
   started is left, by its return or by MustRepoLogger's panic, as long as an
   unrecovered panic has not ended the process. *)
C20_LockReleased ==
    /\ [](\A t \in Threads : mutex = t <=> InCriticalSection(t))
    /\ []((\A t \in Threads : ~InCriticalSection(t)) => mutex = NoThread)
    /\ [](\A t \in Threads : (alive /\ InCall(t)) => ENABLED Proceed(t))
    /\ \A t \in Threads : InCall(t) ~> (~InCall(t) \/ ~alive)

\* MustRepoLogger has panicked on a repository without packages, the mutex is free
\* and the other thread is inside a call of its own
C20_Witness ==
    \E t, u \in Threads :
        /\ pc[t] = "panic"
        /\ frame[t].op = "MustRepoLogger"
        /\ ret[t].err # NoErr
        /\ mutex = u
        /\ InCriticalSection(u)

====
